---- MODULE Spec2Model ----
(***************************************************************************)
(* hack/verify-flags-underscore.py: the flag-name checker.                 *)
(*                                                                         *)
(* Text is a sequence of atoms.  In a line, an atom is one character, or   *)
(* one of the two pieces of declaration syntax DeclOpen / DeclClose.  In a *)
(* file name, an atom is one of the literal texts the script looks for     *)
(* (Godeps, .svg, ...) or a piece of text "x"/"y" that contains none of    *)
(* them.  A path is a sequence of names (its components).                  *)
(***************************************************************************)
EXTENDS Naturals, Sequences, FiniteSets, TLC

VARIABLES
    skip_exceptions,  \* args.skip_exceptions
    filenames,        \* args.filenames
    tree,             \* the files below rootdir, in os.walk order
    known_flags_txt,  \* the lines of hack/verify-flags/known-flags.txt
    exceptions_txt,   \* the lines of hack/verify-flags/exceptions.txt
    pc,               \* position in main()
    exceptions,       \* main: exceptions
    files,            \* main: files
    flags,            \* main: flags
    flagRE,           \* main: flagRE
    bad_lines,        \* main: bad_lines
    fi,               \* main: files of the scan loop already done
    output,           \* rows printed on stdout
    exit_status,      \* exit status of the process: "none" until it ends
    fault,            \* the uncaught exception that ended the run, or "none"
    probe             \* SpecPaths: one path and what each file filter made of it

vars == <<skip_exceptions, filenames, tree, known_flags_txt, exceptions_txt,
          pc, exceptions, files, flags, flagRE, bad_lines, fi, output,
          exit_status, fault, probe>>

inputs == <<skip_exceptions, filenames, tree, known_flags_txt, exceptions_txt>>

----------------------------------------------------------------------------
(* Bounds of the model *)

MaxFlags == 2        \* lines of known-flags.txt
MaxLines == 2        \* lines in the tree, all files together
MaxExceptions == 1   \* lines of exceptions.txt
MaxNameAtoms == 2    \* atoms in one path component (SpecPaths)
MaxDepth == 2        \* components in one path (SpecPaths)

----------------------------------------------------------------------------
(* Generic helpers *)

Range(s) == {s[i] : i \in 1..Len(s)}

SeqsUpTo(S, n) == UNION {[1..k -> S] : k \in 0..n}

\* all orders in which the elements of a finite set can be listed
Orders(S) == {s \in [1..Cardinality(S) -> S] : Range(s) = S}

----------------------------------------------------------------------------
(* Paths.  A name is a sequence of atoms, a path a sequence of names; a     *)
(* pathname is [abs, names]: names below rootdir when abs, else relative.  *)

NameAtoms == {"Godeps", "third_party", ".git", "exceptions.txt",
              "known-flags.txt", ".svg", ".gliffy", ".go", "x"}

\* str.endswith(ext), for an extension that is one atom
endswith(names, ext) ==
    /\ names # <<>>
    /\ names[Len(names)] # <<>>
    /\ names[Len(names)][Len(names[Len(names)])] = ext

\* `x in f`: the text x occurs somewhere in the path string
contains(names, x) == \E i \in 1..Len(names) : x \in Range(names[i])

\* the path string, components joined by "/"
RECURSIVE PathStr(_)
PathStr(names) ==
    IF names = <<>> THEN <<>>
    ELSE IF Len(names) = 1 THEN names[1]
    ELSE names[1] \o <<"/">> \o PathStr(Tail(names))

\* os.path.join(rootdir, f) for a relative f; rootdir holds none of the atoms
join(f) == [abs |-> TRUE, names |-> f.names]

\* os.path.relpath(pathname, rootdir), as text
relpath(pathname) == PathStr(pathname.names)

\* the file of the tree a pathname names, as a set of at most one file
FileAt(pathname) == {tree[i] : i \in {j \in 1..Len(tree) : tree[j].names = pathname.names}}

\* f.read().splitlines() of a file that opens
ReadLines(pathname) == (CHOOSE f \in FileAt(pathname) : TRUE).lines

\* is_binary: "raise" when open() fails (the except clause returns True, but
\* the finally clause then calls f.close() on the unbound f), TRUE when a
\* chunk holds a null byte or read() fails, FALSE otherwise
is_binary(file) ==
    CASE file.status = "noopen" -> "raise"
      [] file.status = "binary" -> "true"
      [] file.status = "noread" -> "true"
      [] OTHER -> "false"

\* os.walk never descends into a directory removed from dirs
PrunedDirs == {<<"Godeps">>, <<"third_party">>, <<".git">>}

RemovedFiles == {<<"exceptions.txt">>, <<"known-flags.txt">>}

Descends(names) == \A i \in 1..(Len(names) - 1) : names[i] \notin PrunedDirs

\* the files of the walk that reach is_binary
Visited(file) ==
    /\ Descends(file.names)
    /\ file.names[Len(file.names)] \notin RemovedFiles
    /\ ~endswith(file.names, ".svg")
    /\ ~endswith(file.names, ".gliffy")

\* get_all_files(rootdir): [raised, files]
RECURSIVE walk(_, _)
walk(t, acc) ==
    IF t = <<>> THEN [raised |-> FALSE, files |-> acc]
    ELSE IF ~Visited(Head(t)) THEN walk(Tail(t), acc)
    ELSE IF is_binary(Head(t)) = "raise" THEN [raised |-> TRUE, files |-> acc]
    ELSE IF is_binary(Head(t)) = "true" THEN walk(Tail(t), acc)
    ELSE walk(Tail(t), Append(acc, [abs |-> TRUE, names |-> Head(t).names]))

get_all_files(t) == walk(t, <<>>)

\* the first loop of normalize_files
Kept(f) ==
    /\ ~contains(f.names, "Godeps")
    /\ ~contains(f.names, "third_party")
    /\ ~contains(f.names, "exceptions.txt")
    /\ ~contains(f.names, "known-flags.txt")
    /\ ~endswith(f.names, ".svg")
    /\ ~endswith(f.names, ".gliffy")

normalize_files(fs) ==
    LET newfiles == SelectSeq(fs, Kept)
    IN  [i \in 1..Len(newfiles) |->
            IF newfiles[i].abs THEN newfiles[i] ELSE join(newfiles[i])]

----------------------------------------------------------------------------
(* Flags and the Combined Pattern *)

\* dashRE = re.compile('[-_]')
dashRE == {"-", "_"}

\* dashRE.search(flag)
HasDash(flag) == \E i \in 1..Len(flag) : flag[i] \in dashRE

\* the declaration syntax the six regexs of get_flags recognise; the captured
\* group "([^"]*)" is what stands between the two
DeclOpen == ".String(\""
DeclClose == "\",d,u)"

\* regex.findall on one line of data: the captured flag names
Captured(line) ==
    IF /\ Len(line) >= 2
       /\ line[1] = DeclOpen
       /\ line[Len(line)] = DeclClose
       /\ \A i \in 2..(Len(line) - 1) : line[i] \notin {DeclOpen, DeclClose}
    THEN {SubSeq(line, 2, Len(line) - 1)}
    ELSE {}

\* regex.findall(data) for the data of one file
findall(lines) == UNION {Captured(lines[k]) : k \in 1..Len(lines)}

\* matches, over the files of get_flags's loop: the .go files only
Matches(fs) ==
    UNION {findall(ReadLines(fs[i])) :
             i \in {j \in 1..Len(fs) : endswith(fs[j].names, ".go")}}

\* new_flags as it would be if known flags were compared with dashes and
\* underscores taken as the same character
new_flags_normalized(fs, known) ==
    {flag \in Matches(fs) :
        /\ \E i \in 1..Len(flag) : flag[i] \in {"-", "_"}
        /\ \A k \in known :
              \/ Len(k) # Len(flag)
              \/ \E i \in 1..Len(flag) :
                    /\ k[i] # flag[i]
                    /\ ~({k[i], flag[i]} \subseteq {"-", "_"})}

\* new_flags of get_flags, given the preloaded known flags
new_flags(fs, known) == {flag \in Matches(fs) : HasDash(flag) /\ flag \notin known}

\* newre = dashRE.sub('[-_]', flag): each pattern position is the set of
\* characters it accepts
newre(flag) ==
    [i \in 1..Len(flag) |-> IF flag[i] \in dashRE THEN dashRE ELSE {flag[i]}]

\* flags_to_re: the alternation of the per-flag patterns, in list order
flags_to_re(fl) == [i \in 1..Len(fl) |-> newre(fl[i])]

\* one alternative matches the line at position i
MatchesAt(pat, line, i) ==
    /\ i + Len(pat) - 1 <= Len(line)
    /\ \A k \in 1..Len(pat) : line[i + k - 1] \in pat[k]

\* the alternatives are tried in order at each position
AltAt(re, line, i) == {j \in 1..Len(re) : MatchesAt(re[j], line, i)}

Least(S) == CHOOSE n \in S : \A m \in S : n <= m

\* flagre.search(line): the leftmost match, [found, text]; an alternation of
\* no flag is the empty pattern, which matches the empty text at once
search(re, line) ==
    IF re = <<>> THEN [found |-> TRUE, text |-> <<>>]
    ELSE LET at == {i \in 1..Len(line) : AltAt(re, line, i) # {}}
         IN  IF at = {} THEN [found |-> FALSE, text |-> <<>>]
             ELSE LET i == Least(at)
                      j == Least(AltAt(re, line, i))
                  IN  [found |-> TRUE,
                       text |-> SubSeq(line, i, i + Len(re[j]) - 1)]

\* line_has_bad_flag as it would be without the test for "_" in the match
line_has_any_flag(line, flagre) ==
    IF flagre = <<>> THEN TRUE
    ELSE \E i \in 1..Len(line) : \E j \in 1..Len(flagre) :
            /\ i + Len(flagre[j]) - 1 <= Len(line)
            /\ \A k \in 1..Len(flagre[j]) : line[i + k - 1] \in flagre[j][k]

line_has_bad_flag(line, flagre) ==
    LET m == search(flagre, line)
    IN  IF ~m.found THEN FALSE
        ELSE IF "_" \in Range(m.text) THEN TRUE
        ELSE FALSE

----------------------------------------------------------------------------
(* The exceptions file *)

\* exception.split(":", 1)
split(exception) ==
    LET colons == {i \in 1..Len(exception) : exception[i] = ":"}
    IN  IF colons = {} THEN <<exception>>
        ELSE <<SubSeq(exception, 1, Least(colons) - 1),
               SubSeq(exception, Least(colons) + 1, Len(exception))>>

\* load_exceptions: [raised, exceptions].  The diagnostic of a line without
\* a colon is printed with printf, a name Python does not define.
RECURSIVE load(_, _)
load(lines, acc) ==
    IF lines = <<>> THEN [raised |-> FALSE, exceptions |-> acc]
    ELSE IF Len(split(Head(lines))) # 2
         THEN [raised |-> TRUE, exceptions |-> acc]
         ELSE load(Tail(lines), acc \cup {split(Head(lines))})

load_exceptions(skip, lines) ==
    IF skip THEN [raised |-> FALSE, exceptions |-> {}]
    ELSE load(lines, {})

\* the body of the scan loop for one file: the rows it appends to bad_lines
RECURSIVE scan(_, _, _, _)
scan(relname, lines, flagre, exc) ==
    IF lines = <<>> THEN <<>>
    ELSE (IF /\ line_has_bad_flag(Head(lines), flagre)
             /\ <<relname, Head(lines)>> \notin exc
          THEN << <<relname, Head(lines)>> >>
          ELSE <<>>) \o scan(relname, Tail(lines), flagre, exc)

----------------------------------------------------------------------------
(* Output and exit *)

NewFlagsBanner == <<"Found flags in golang files not in the list of known flags. Please add these to hack/verify-flags/known-flags.txt">>

IllegalBanner == <<"Found illegal 'flag' usage. If this is a false positive add the following line(s) to hack/verify-flags/exceptions.txt:">>

\* "%s:%s" % (relname, line)
Row(bad) == bad[1] \o <<":">> \o bad[2]

\* main() ends without a return statement
MainReturn == "None"

\* sys.exit(arg): None is status 0
sys_exit(arg) == IF arg = "None" THEN "0" ELSE "1"

\* an uncaught exception ends the process with a traceback and status 1
Traceback == "1"

----------------------------------------------------------------------------
(* The inputs of a run *)

FlagNames == {<<"a">>, <<"a", "-", "b">>, <<"a", "_", "b">>}

LineTexts == {<<"a", "_", "b">>,
              <<"a", "-", "b", " ", "a", "_", "b">>,
              <<DeclOpen, "a", "-", "b", DeclClose>>,
              <<DeclOpen, "a", "_", "b", DeclClose>>,
              <<DeclOpen, "b", DeclClose>>}

PathsMain == {<< <<"x", ".go">> >>, << <<"x">> >>}

\* a file is text, holds a null byte ("binary"), cannot be opened ("noopen")
\* or opens and cannot be read ("noread")
FileRecs ==
    [names : PathsMain, status : {"text"}, lines : SeqsUpTo(LineTexts, MaxLines)]
    \cup [names : PathsMain, status : {"binary", "noopen", "noread"}, lines : {<<>>}]

RECURSIVE CountLines(_)
CountLines(t) == IF t = <<>> THEN 0 ELSE Len(Head(t).lines) + CountLines(Tail(t))

\* a tree holds each path at most once
Trees ==
    {t \in SeqsUpTo(FileRecs, Cardinality(PathsMain)) :
        /\ \A i, j \in 1..Len(t) : t[i].names = t[j].names => i = j
        /\ CountLines(t) <= MaxLines}

TextTrees == {t \in Trees : \A i \in 1..Len(t) : t[i].status = "text"}

\* lines an exceptions file may hold: an entry for a line of the tree, or a
\* line without a colon
ExceptionLines(t) ==
    UNION {{PathStr(t[i].names) \o <<":">> \o t[i].lines[k] : k \in 1..Len(t[i].lines)} :
             i \in 1..Len(t)}
    \cup {<<"x">>}

AllNames(t) == [i \in 1..Len(t) |-> [abs |-> FALSE, names |-> t[i].names]]

----------------------------------------------------------------------------
(* A run of the script *)

\* the state main() starts in: a tree of trees and, when listed, the tree's
\* files given as the file list or not
Start(trees, listed) ==
    /\ skip_exceptions \in BOOLEAN
    /\ tree \in trees
    /\ filenames \in IF listed THEN {<<>>, AllNames(tree)} ELSE {<<>>}
    /\ known_flags_txt \in {S \in SUBSET FlagNames : Cardinality(S) <= MaxFlags}
    \* a skip-exceptions run never opens the exceptions file
    /\ exceptions_txt \in IF skip_exceptions THEN {<<>>}
                         ELSE SeqsUpTo(ExceptionLines(tree), MaxExceptions)
    /\ pc = "load_exceptions"
    /\ exceptions = {}
    /\ files = <<>>
    /\ flags = <<>>
    /\ flagRE = <<>>
    /\ bad_lines = <<>>
    /\ fi = 0
    /\ output = <<>>
    /\ exit_status = "none"
    /\ fault = "none"
    /\ probe = [names |-> <<>>, done |-> {}, list |-> <<>>, walk |-> <<>>]

\* a run over a tree of text files, no file list given
Init == Start(TextTrees, FALSE)

\* a run over a tree in which files may be binary or closed to the reader,
\* with or without the tree's files given as the file list
InitFaults == Start(Trees, TRUE)

\* an uncaught exception
Raise(exc) ==
    /\ pc' = "exited"
    /\ exit_status' = Traceback
    /\ fault' = exc

\* main: exceptions = load_exceptions(rootdir)
LoadExceptions ==
    /\ pc = "load_exceptions"
    /\ LET r == load_exceptions(skip_exceptions, exceptions_txt)
       IN  /\ exceptions' = r.exceptions
           /\ IF r.raised THEN Raise("NameError")
              ELSE pc' = "get_files" /\ UNCHANGED <<exit_status, fault>>
    /\ UNCHANGED <<inputs, files, flags, flagRE, bad_lines, fi, output, probe>>

\* main: files = args.filenames, or get_all_files(rootdir); then
\* files = normalize_files(rootdir, files)
GetFiles ==
    /\ pc = "get_files"
    /\ IF Len(filenames) > 0
       THEN /\ files' = normalize_files(filenames)
            /\ pc' = "get_flags"
            /\ UNCHANGED <<exit_status, fault>>
       ELSE LET r == get_all_files(tree)
            IN  IF r.raised
                THEN Raise("UnboundLocalError") /\ UNCHANGED files
                ELSE /\ files' = normalize_files(r.files)
                     /\ pc' = "get_flags"
                     /\ UNCHANGED <<exit_status, fault>>
    /\ UNCHANGED <<inputs, exceptions, flags, flagRE, bad_lines, fi, output, probe>>

\* open(pathname, 'r') and f.read() both succeed
Readable(pathname) == \E f \in FileAt(pathname) : f.status \in {"text", "binary"}

\* get_flags as it would be without the sys.exit(1) after the new-flag list
GetFlagsNoExit ==
    /\ pc = "get_flags"
    /\ IF \E i \in 1..Len(files) : endswith(files[i].names, ".go") /\ ~Readable(files[i])
       THEN Raise("IOError") /\ UNCHANGED <<flags, output>>
       ELSE /\ IF new_flags(files, known_flags_txt) # {}
               THEN \E order \in Orders(new_flags(files, known_flags_txt)) :
                       output' = output \o <<NewFlagsBanner>> \o order
               ELSE UNCHANGED output
            /\ flags' \in Orders(known_flags_txt)
            /\ pc' = "flags_to_re"
            /\ UNCHANGED <<exit_status, fault>>
    /\ UNCHANGED <<inputs, exceptions, files, flagRE, bad_lines, fi, probe>>

\* main: flags = get_flags(rootdir, files)
GetFlags ==
    /\ pc = "get_flags"
    /\ IF \E i \in 1..Len(files) : endswith(files[i].names, ".go") /\ ~Readable(files[i])
       THEN Raise("IOError") /\ UNCHANGED <<flags, output>>
       ELSE IF new_flags(files, known_flags_txt) # {}
       THEN /\ \E order \in Orders(new_flags(files, known_flags_txt)) :
                  output' = output \o <<NewFlagsBanner>> \o order
            /\ pc' = "exited"
            /\ exit_status' = "1"
            /\ UNCHANGED <<flags, fault>>
       ELSE /\ flags' \in Orders(known_flags_txt)
            /\ pc' = "flags_to_re"
            /\ UNCHANGED <<output, exit_status, fault>>
    /\ UNCHANGED <<inputs, exceptions, files, flagRE, bad_lines, fi, probe>>

\* main: flagRE = flags_to_re(flags)
FlagsToRe ==
    /\ pc = "flags_to_re"
    /\ flagRE' = flags_to_re(flags)
    /\ pc' = "scan"
    /\ UNCHANGED <<inputs, exceptions, files, flags, bad_lines, fi, output,
                   exit_status, fault, probe>>

\* main: one turn of `for pathname in files`
ScanFile ==
    /\ pc = "scan"
    /\ fi < Len(files)
    /\ LET pathname == files[fi + 1]
           relname == relpath(pathname)
       IN  IF ~Readable(pathname)
           THEN Raise("IOError") /\ UNCHANGED <<bad_lines, fi>>
           ELSE /\ bad_lines' = bad_lines \o scan(relname, ReadLines(pathname), flagRE, exceptions)
                /\ fi' = fi + 1
                /\ UNCHANGED <<pc, exit_status, fault>>
    /\ UNCHANGED <<inputs, exceptions, files, flags, flagRE, output, probe>>

\* main: the report, then sys.exit(main())
Report ==
    /\ pc = "scan"
    /\ fi = Len(files)
    /\ output' = output \o
          (IF Len(bad_lines) # 0
           THEN (IF ~skip_exceptions THEN <<IllegalBanner>> ELSE <<>>)
                \o [i \in 1..Len(bad_lines) |-> Row(bad_lines[i])]
           ELSE <<>>)
    /\ pc' = "exited"
    /\ exit_status' = sys_exit(MainReturn)
    /\ UNCHANGED <<inputs, exceptions, files, flags, flagRE, bad_lines, fi, fault, probe>>

Next ==
    \/ LoadExceptions
    \/ GetFiles
    \/ GetFlags
    \/ FlagsToRe
    \/ ScanFile
    \/ Report

Spec == Init /\ [][Next]_vars

SpecFaults == InitFaults /\ [][Next]_vars

----------------------------------------------------------------------------
(* The two file filters applied to one path *)

PathNames == SeqsUpTo(NameAtoms, MaxNameAtoms) \ {<<>>}

ProbePaths == SeqsUpTo(PathNames, MaxDepth) \ {<<>>}

InitPaths ==
    /\ probe \in [names : ProbePaths, done : {{}}, list : {<<>>}, walk : {<<>>}]
    /\ skip_exceptions = FALSE
    /\ tree = <<[names |-> probe.names, status |-> "text", lines |-> <<>>]>>
    /\ filenames = <<[abs |-> FALSE, names |-> probe.names]>>
    /\ known_flags_txt = {}
    /\ exceptions_txt = <<>>
    /\ pc = "probe"
    /\ exceptions = {}
    /\ files = <<>>
    /\ flags = <<>>
    /\ flagRE = <<>>
    /\ bad_lines = <<>>
    /\ fi = 0
    /\ output = <<>>
    /\ exit_status = "none"
    /\ fault = "none"

\* the path given as an explicit file: normalize_files(rootdir, args.filenames)
ProbeList ==
    /\ pc = "probe"
    /\ "list" \notin probe.done
    /\ probe' = [probe EXCEPT !.done = @ \cup {"list"},
                              !.list = normalize_files(filenames)]
    /\ UNCHANGED <<inputs, pc, exceptions, files, flags, flagRE, bad_lines, fi,
                   output, exit_status, fault>>

\* the path as a file of the tree: get_all_files(rootdir)
ProbeWalk ==
    /\ pc = "probe"
    /\ "walk" \notin probe.done
    /\ probe' = [probe EXCEPT !.done = @ \cup {"walk"},
                              !.walk = get_all_files(tree).files]
    /\ UNCHANGED <<inputs, pc, exceptions, files, flags, flagRE, bad_lines, fi,
                   output, exit_status, fault>>

NextPaths == ProbeList \/ ProbeWalk

SpecPaths == InitPaths /\ [][NextPaths]_vars

----------------------------------------------------------------------------
(* Vocabulary of the properties *)

\* s is t with some elements left out, order kept
RECURSIVE IsSubSeq(_, _)
IsSubSeq(s, t) ==
    IF s = <<>> THEN TRUE
    ELSE IF t = <<>> THEN FALSE
    ELSE IF Head(s) = Head(t) THEN IsSubSeq(Tail(s), Tail(t))
    ELSE IsSubSeq(s, Tail(t))

\* the text sub stands somewhere in the line
Occurs(sub, line) ==
    \E i \in 1..(Len(line) + 1 - Len(sub)) : SubSeq(line, i, i + Len(sub) - 1) = sub

\* the underscore spelling of a flag
UnderscoreForm(flag) == [i \in 1..Len(flag) |-> IF flag[i] = "-" THEN "_" ELSE flag[i]]

\* every (relname, line) of the first n files, in scan order
RECURSIVE RowsOf(_, _)
RowsOf(fs, n) ==
    IF n = 0 THEN <<>>
    ELSE RowsOf(fs, n - 1) \o
         [k \in 1..Len(ReadLines(fs[n])) |-> <<relpath(fs[n]), ReadLines(fs[n])[k]>>]

\* what the whole scan loop appends for a given pattern and exception set
RECURSIVE all_bad(_, _, _, _)
all_bad(fs, n, re, exc) ==
    IF n = 0 THEN <<>>
    ELSE all_bad(fs, n - 1, re, exc) \o scan(relpath(fs[n]), ReadLines(fs[n]), re, exc)

\* get_flags has returned or has ended the run itself
GetFlagsDone == pc \in {"flags_to_re", "scan"} \/ (pc = "exited" /\ fault = "none")

\* the run was ended by get_flags's sys.exit(1)
EndedByGetFlags == pc = "exited" /\ fault = "none" /\ exit_status = "1"

\* the scan loop has run to its end
ScanEnded ==
    /\ fault = "none"
    /\ \/ pc = "scan" /\ fi = Len(files)
       \/ pc = "exited" /\ exit_status = "0"

\* a .go candidate file declares a name with a dash or an underscore that is
\* not, character for character, a line of known-flags.txt
UnregisteredDeclared ==
    \E i \in 1..Len(files) :
        /\ files[i].names[Len(files[i].names)][Len(files[i].names[Len(files[i].names)])] = ".go"
        /\ \E k \in 1..Len(ReadLines(files[i])) :
              \E name \in Captured(ReadLines(files[i])[k]) :
                  /\ "-" \in Range(name) \/ "_" \in Range(name)
                  /\ \A known \in known_flags_txt : known # name

----------------------------------------------------------------------------
(* C1: a run that finds no new flag and records a violation ends with a     *)
(* non-zero exit status; the status is 0 only with no new flag and no      *)
(* violation.                                                              *)
C1_ExitStatusReflectsViolations ==
    (pc = "exited" /\ fault = "none") =>
        (exit_status = "0" <=> (~UnregisteredDeclared /\ Len(bad_lines) = 0))

(* C2: every line of a candidate file that holds the underscore spelling of *)
(* a known flag, and is not excepted, is reported, whatever else the line  *)
(* and the allowlist hold.                                                 *)
C2_UnderscoreLineReported ==
    ScanEnded =>
        \A i \in 1..Len(files) : \A k \in 1..Len(ReadLines(files[i])) :
            LET line == ReadLines(files[i])[k]
                row == <<relpath(files[i]), line>>
            IN  (/\ \E flag \in known_flags_txt :
                        /\ "_" \in Range(UnderscoreForm(flag))
                        /\ Occurs(UnderscoreForm(flag), line)
                 /\ row \notin exceptions)
                => row \in Range(bad_lines)

(* C3: when get_flags finds an unregistered flag the run ends with status 1 *)
(* before the scan: no file is scanned, no pattern is built, and the       *)
(* output is the new-flag banner followed by the new flags, nothing else.  *)
C3_NewFlagPrecedence ==
    (GetFlagsDone /\ UnregisteredDeclared) =>
        /\ pc = "exited"
        /\ exit_status = "1"
        /\ fi = 0
        /\ bad_lines = <<>>
        /\ flagRE = <<>>
        /\ Len(output) >= 2
        /\ output[1] = NewFlagsBanner
        /\ \A k \in 2..Len(output) : output[k] \in Matches(files) \ known_flags_txt
        /\ \A k, l \in 2..Len(output) : output[k] = output[l] => k = l
        /\ \A name \in Matches(files) \ known_flags_txt :
              HasDash(name) => \E k \in 2..Len(output) : output[k] = name

\* a run ended by a new flag although a scan would have reported a line
C3_Witness ==
    /\ EndedByGetFlags
    /\ Len(output) >= 2
    /\ \E i \in 1..Len(files) : \E k \in 1..Len(ReadLines(files[i])) :
          \E o \in Orders(known_flags_txt) :
              line_has_bad_flag(ReadLines(files[i])[k], flags_to_re(o))

(* C4: outside skip-exceptions mode, a line of the exceptions file without *)
(* a colon is dropped and the run goes on: the well-formed entries are     *)
(* loaded and no exception ends the run there.                             *)
C4_MalformedEntrySkipped ==
    (~skip_exceptions /\ pc # "load_exceptions") =>
        /\ fault # "NameError"
        /\ exceptions = {split(exceptions_txt[k]) :
                           k \in {j \in 1..Len(exceptions_txt) : Len(split(exceptions_txt[j])) = 2}}

(* C5: two runs over the same tree, allowlist and exceptions file print the *)
(* same output, whatever order the known flags and the new flags are       *)
(* iterated in.                                                            *)
C5_OutputIndependentOfOrder ==
    /\ ScanEnded =>
          \A o \in Orders(known_flags_txt) :
              all_bad(files, Len(files), flags_to_re(o), exceptions) = bad_lines
    /\ EndedByGetFlags =>
          \A o \in Orders(new_flags(files, known_flags_txt)) :
              output = <<NewFlagsBanner>> \o o

(* C6: the violation list of a skip-exceptions run holds, in order, every   *)
(* row of the normal run over the same tree and allowlist, and is equal to *)
(* it when the exceptions file is empty.                                   *)
C6_SkipModeIsSuperset ==
    (ScanEnded /\ ~skip_exceptions) =>
        \A o \in Orders(known_flags_txt) :
            /\ IsSubSeq(bad_lines, all_bad(files, Len(files), flags_to_re(o), {}))
            /\ exceptions_txt = <<>> =>
                  bad_lines = all_bad(files, Len(files), flags_to_re(o), {})

\* the same comparison when both runs list the known flags in the same order
C6_SameOrder ==
    (ScanEnded /\ ~skip_exceptions) =>
        /\ IsSubSeq(bad_lines, all_bad(files, Len(files), flagRE, {}))
        /\ exceptions_txt = <<>> => bad_lines = all_bad(files, Len(files), flagRE, {})

(* C7: normalize_files keeps a path exactly when get_all_files keeps a file *)
(* at that path: it is dropped iff it lies below Godeps, third_party or    *)
(* .git, is exceptions.txt or known-flags.txt, or ends in .svg or .gliffy; *)
(* a kept relative path is resolved against the root.                      *)
C7_SameExclusionRules ==
    probe.done = {"list", "walk"} =>
        LET names == probe.names
            base == names[Len(names)]
            excluded ==
                \/ \E i \in 1..(Len(names) - 1) :
                      names[i] \in {<<"Godeps">>, <<"third_party">>, <<".git">>}
                \/ base \in {<<"exceptions.txt">>, <<"known-flags.txt">>}
                \/ base[Len(base)] \in {".svg", ".gliffy"}
        IN  /\ (probe.list = <<>>) <=> (probe.walk = <<>>)
            /\ (probe.list = <<>>) <=> excluded
            /\ probe.list # <<>> => probe.list = <<[abs |-> TRUE, names |-> names]>>

(* C8: get_flags ends the run with status 1 iff a name captured from a .go *)
(* candidate file has a dash or underscore and is not literally a line of  *)
(* known-flags.txt; otherwise it returns exactly the lines of              *)
(* known-flags.txt, each once.                                             *)
C8_GetFlagsOutcome ==
    GetFlagsDone =>
        /\ EndedByGetFlags <=> UnregisteredDeclared
        /\ ~UnregisteredDeclared =>
              /\ Range(flags) = known_flags_txt
              /\ Len(flags) = Cardinality(known_flags_txt)

\* a_b declared while a-b is the registered spelling: a new flag
C8_Witness ==
    /\ EndedByGetFlags
    /\ known_flags_txt = {<<"a", "-", "b">>}
    /\ output = <<NewFlagsBanner, <<"a", "_", "b">> >>

(* C9: in the tree walk, a file that cannot be opened or read counts as    *)
(* binary: it is skipped, the walk goes on with the next file and no       *)
(* exception ends the run.                                                 *)
C9_UnreadableFileSkipped ==
    /\ fault # "UnboundLocalError"
    /\ (Len(filenames) = 0 /\ pc = "get_flags") =>
          \A i \in 1..Len(tree) :
              (\E k \in 1..Len(files) : files[k].names = tree[i].names)
                  <=> (/\ Visited(tree[i])
                       /\ tree[i].status = "text"
                       /\ Kept(tree[i]))

(* C10: every reported row is a line of a scanned candidate file in which  *)
(* the Combined Pattern matches, the matched text has an underscore, and   *)
(* the row is not excepted; rows stand in file order, then line order, and *)
(* are printed as path:line.                                               *)
C10_ReportIsSound ==
    /\ \A r \in 1..Len(bad_lines) :
          LET row == bad_lines[r]
              m == search(flagRE, row[2])
          IN  /\ m.found
              /\ "_" \in Range(m.text)
              /\ "_" \in Range(row[2])
              /\ \E flag \in known_flags_txt :
                    /\ Len(m.text) = Len(flag)
                    /\ \A c \in 1..Len(flag) :
                          \/ m.text[c] = flag[c]
                          \/ {m.text[c], flag[c]} \subseteq {"-", "_"}
              /\ row \notin exceptions
    /\ pc = "scan" => IsSubSeq(bad_lines, RowsOf(files, fi))
    /\ ScanEnded /\ pc = "exited" =>
          /\ IsSubSeq(bad_lines, RowsOf(files, Len(files)))
          /\ \A r \in 1..Len(bad_lines) :
                output[Len(output) - Len(bad_lines) + r] =
                    bad_lines[r][1] \o <<":">> \o bad_lines[r][2]

\* a run that reported two different rows for the registered flag a-b
C10_Witness ==
    /\ ScanEnded
    /\ pc = "exited"
    /\ Len(bad_lines) = 2
    /\ bad_lines[1] # bad_lines[2]
    /\ <<"a", "-", "b">> \in known_flags_txt

====
